---- MODULE Spec2Model ----
(***************************************************************************)
(* A model of wp2pdf: the glyph cache (cache_manager.py), the page         *)
(* composer and line layout (pdf_generator.py), the content extractor and  *)
(* date/filename helpers (pdf_generator.py) and the batch driver           *)
(* (batch_processor.py).                                                   *)
(*                                                                         *)
(* Each subsystem has its own specification (SpecCache, SpecCompose,       *)
(* SpecContent, SpecDates, SpecSplit, SpecBatch); the variables of the     *)
(* other subsystems stay at their initial values under it.                 *)
(*                                                                         *)
(* Lengths are in tenths of a millimetre (FPDF's default unit is the       *)
(* millimetre, the default page is A4 portrait).                           *)
(***************************************************************************)
EXTENDS Integers, Sequences, FiniteSets, TLC

VARIABLES
    \* ---- CacheManager (cache_manager.py)
    cm_open,          \* TRUE once a CacheManager has been constructed
    emoji_mapping,    \* self.emoji_mapping: glyph key -> filename
    mapping_file,     \* emoji_mapping.json on disk: [ok, map]
    cache_files,      \* the emoji_*.png files that exist in the cache directory
    call,             \* the last get_emoji_image call: key, outcome, result
    prev_call,        \* the call before it, on the same CacheManager
    \* ---- PDFGenerator.create_pdf (pdf_generator.py)
    cpc,              \* position in create_pdf
    y,                \* pdf.get_y(): the vertical cursor
    page,             \* pdf.page_no()
    pages,            \* what each page holds: [header, text, images]
    first_paragraph,  \* the local first_paragraph
    nparas,           \* paragraphs consumed so far
    para,             \* the last paragraph laid out: its segments, its line writes
    nimages,          \* image entries consumed so far
    images_log,       \* the image entries handled so far, each with its page
    image,            \* the last image entry handled, with its display size
    \* ---- PDFGenerator._process_content
    process_content_call,
    \* ---- PDFGenerator._format_date, _get_filename
    format_date_call,
    get_filename_call,
    \* ---- PDFGenerator._split_text_and_emojis
    split_call,       \* the last call: the table order, the text, the segments
    \* ---- BatchProcessor.process_posts (batch_processor.py)
    bpc,              \* position in process_posts
    run,              \* how many times process_posts was started
    absent_title,     \* the posts the API returns without a 'title' field
    processed_file,   \* processed_posts.json: [ok, ids]
    results_file,     \* processing_results.json: the list of results
    processed_posts,  \* the local set loaded at the start of the run
    bpage,            \* the local page
    posts,            \* the page of posts being iterated
    idx,              \* index of the next post of the page
    result,           \* the local result awaiting save_result
    total_processed,  \* the local total_processed
    retry_delay,      \* the local retry_delay
    retries,          \* page retries so far in this run
    attempt,          \* the last post attempt: id, raised, error_pdf, propagated
    rendered,         \* ids handed to create_pdf in this run
    fetched,          \* page numbers fetched in this run, in order
    fetch_failed,     \* whether api.get_posts raised in this run
    persisted_before  \* ids with an outcome in results_file when this run started

cacheVars   == <<cm_open, emoji_mapping, mapping_file, cache_files, call, prev_call>>
composeVars == <<cpc, y, page, pages, first_paragraph, nparas, para, nimages,
                 images_log, image>>
contentVars == <<process_content_call>>
dateVars    == <<format_date_call, get_filename_call>>
splitVars   == <<split_call>>
batchVars   == <<bpc, run, absent_title, processed_file, results_file,
                 processed_posts, bpage, posts, idx, result, total_processed,
                 retry_delay, retries, attempt, rendered, fetched, fetch_failed,
                 persisted_before>>
vars        == <<cacheVars, composeVars, contentVars, dateVars, splitVars, batchVars>>

\* What a step of one subsystem leaves alone
notCache   == <<composeVars, contentVars, dateVars, splitVars, batchVars>>
notCompose == <<cacheVars, contentVars, dateVars, splitVars, batchVars>>
notContent == <<cacheVars, composeVars, dateVars, splitVars, batchVars>>
notDates   == <<cacheVars, composeVars, contentVars, splitVars, batchVars>>
notSplit   == <<cacheVars, composeVars, contentVars, dateVars, batchVars>>
notBatch   == <<cacheVars, composeVars, contentVars, dateVars, splitVars>>

\* Python's None, and a value that is not there
None == <<>>

Min(a, b) == IF a <= b THEN a ELSE b

(***************************************************************************)
(* CacheManager                                                            *)
(***************************************************************************)

\* Bound: the glyph keys are 1..NumKeys
NumKeys == 2
Keys == 1..NumKeys

\* _get_emoji_filename: "emoji_" + md5(key) + ".png", a fixed name per key
GetEmojiFilename(k) == <<"emoji_", k, ".png">>

\* self.cache_dir / filename
CachePath(fn) == <<"emoji_cache", fn>>

\* The mappings the code writes: a key maps to its hash-named file
MappingOn(S) == [k \in S |-> GetEmojiFilename(k)]
Mappings == {MappingOn(S) : S \in SUBSET Keys}
FileSets == SUBSET {GetEmojiFilename(k) : k \in Keys}

\* The outcomes of the collaborators during one get_emoji_image call:
\* requests.get, Image.open/convert, img.save, and the mapping file's write
FetchOutcomes   == {"ok", "fail"}
DecodeOutcomes  == {"ok", "fail"}
SaveOutcomes    == {"ok", "fail", "fail_partial"}
MapSaveOutcomes == {"ok", "fail"}
Outcome(f, d, s, m) == [fetch |-> f, decode |-> d, save |-> s, mapsave |-> m]
\* A collaborator is asked only when those before it succeeded: an outcome that
\* no call can observe is left at "ok"
Outcomes == {o \in [fetch : FetchOutcomes, decode : DecodeOutcomes,
                    save : SaveOutcomes, mapsave : MapSaveOutcomes] :
               /\ o.fetch = "fail" => o.decode = "ok" /\ o.save = "ok"
               /\ o.decode = "fail" => o.save = "ok"
               /\ o.fetch = "fail" \/ o.decode = "fail" \/ o.save # "ok"
                     => o.mapsave = "ok"}

\* _load_emoji_mapping: the file's mapping, {} when it is missing or unreadable
LoadEmojiMapping(file) == IF file.ok THEN file.map ELSE MappingOn({})

\* _save_emoji_mapping: rewrites the whole file; a failure is logged and leaves
\* the file truncated
SaveEmojiMapping(m, o) == IF o.mapsave = "ok" THEN [ok |-> TRUE, map |-> m]
                          ELSE [ok |-> FALSE, map |-> MappingOn({})]

\* _download_emoji_image: the bytes, or None after any exception
DownloadEmojiImage(o) == IF o.fetch = "ok" THEN <<"bytes">> ELSE None

\* The state a call starts from, as a result record with nothing done yet
CallStart(k, m, file, files) ==
    [key |-> k, map |-> m, file |-> file, files |-> files, fetches |-> 0,
     mapsaves |-> 0, ret |-> None, exc |-> FALSE, failed |-> FALSE]

\* self.emoji_mapping[k] = filename; self._save_emoji_mapping()
\* A mutant of the mapping update: the mapping is rebuilt with the new key only
UpdateMapping_Rebuild(r, k, fn, o) ==
    LET m == [j \in {k} |-> fn]
    IN  [r EXCEPT !.map = m, !.file = SaveEmojiMapping(m, o),
                  !.mapsaves = r.mapsaves + 1]

\* A mutant of the mapping update: the mapping file is not rewritten
UpdateMapping_NoSave(r, k, fn, o) ==
    [r EXCEPT !.map = [j \in DOMAIN r.map \cup {k} |-> IF j = k THEN fn ELSE r.map[j]]]

UpdateMapping(r, k, fn, o) ==
    LET m == [j \in DOMAIN r.map \cup {k} |-> IF j = k THEN fn ELSE r.map[j]]
    IN  [r EXCEPT !.map = m, !.file = SaveEmojiMapping(m, o),
                  !.mapsaves = r.mapsaves + 1]

\* emoji_char in self.emoji_mapping (line 62)
InMapping(k, m) == k \in DOMAIN m

\* The try block of get_emoji_image (lines 62-87); exc is set where it raises
GetEmojiImageLookup(k, m, file, files, o) ==
    LET r0 == CallStart(k, m, file, files)
        fn == GetEmojiFilename(k)
    IN  IF InMapping(k, m)
        THEN [r0 EXCEPT !.ret = CachePath(m[k])]
        ELSE IF fn \notin files
        THEN LET r1 == [r0 EXCEPT !.fetches = 1]
             IN  IF DownloadEmojiImage(o) # None
                 THEN IF o.decode # "ok"
                      THEN [r1 EXCEPT !.exc = TRUE, !.failed = TRUE]
                      ELSE IF o.save # "ok"
                      THEN [r1 EXCEPT !.exc = TRUE, !.failed = TRUE,
                                      !.files = IF o.save = "fail_partial"
                                                THEN files \cup {fn} ELSE files]
                      ELSE LET r2 == [r1 EXCEPT !.files = files \cup {fn}]
                               r3 == UpdateMapping(r2, k, fn, o)
                               r4 == UpdateMapping(r3, k, fn, o)
                           IN  [r4 EXCEPT !.ret = CachePath(r4.map[k])]
                 ELSE [r1 EXCEPT !.failed = TRUE]
        ELSE LET r1 == UpdateMapping(r0, k, fn, o)
             IN  [r1 EXCEPT !.ret = CachePath(r1.map[k])]

\* A mutant of the try block: the image is downloaded before the mapping and
\* the cache directory are looked at
GetEmojiImageTry_EagerDownload(k, m, file, files, o) ==
    [GetEmojiImageLookup(k, m, file, files, o) EXCEPT !.fetches = 1]

GetEmojiImageTry(k, m, file, files, o) == GetEmojiImageLookup(k, m, file, files, o)

\* A mutant of the except clause: the exception leaves get_emoji_image
CatchAll_Propagate(r) == r

\* except Exception: log and return None (lines 89-91)
CatchAll(r) == IF r.exc THEN [r EXCEPT !.ret = None, !.exc = FALSE] ELSE r

\* get_emoji_image
GetEmojiImage(k, m, file, files, o) == CatchAll(GetEmojiImageTry(k, m, file, files, o))

\* A call as the model records it: failed tells that the fetch, the decode or
\* the image save was attempted and failed; known and on_disk are the state it
\* started from
CallRecord(k, r, m, files) ==
    [key |-> k, ret |-> r.ret, raised |-> r.exc, fetches |-> r.fetches,
     mapsaves |-> r.mapsaves, failed |-> r.failed,
     known |-> k \in DOMAIN m, on_disk |-> GetEmojiFilename(k) \in files]
NoCall == [key |-> 0, ret |-> None, raised |-> FALSE, fetches |-> 0,
           mapsaves |-> 0, failed |-> FALSE, known |-> FALSE, on_disk |-> FALSE]

CacheInit ==
    /\ cm_open = FALSE
    /\ emoji_mapping = MappingOn({})
    /\ mapping_file = [ok |-> TRUE, map |-> MappingOn({})]
    /\ cache_files = {}
    /\ call = NoCall
    /\ prev_call = NoCall

\* CacheManager.__init__ against a cache directory in any state earlier runs
\* can have left: a mapping file (or none, or an unreadable one) and any files
CacheManagerInit ==
    /\ ~cm_open
    /\ \E file \in [ok : {TRUE}, map : Mappings] \cup
                   {[ok |-> FALSE, map |-> MappingOn({})]},
          files \in FileSets :
          /\ mapping_file' = file
          /\ cache_files' = files
          /\ emoji_mapping' = LoadEmojiMapping(file)
    /\ cm_open' = TRUE
    /\ call' = NoCall
    /\ prev_call' = NoCall
    /\ UNCHANGED notCache

\* A later CacheManager on the same directory (each PDFGenerator makes one)
CacheManagerReopen ==
    /\ cm_open
    /\ emoji_mapping' = LoadEmojiMapping(mapping_file)
    /\ call' = NoCall
    /\ prev_call' = NoCall
    /\ UNCHANGED <<cm_open, mapping_file, cache_files>>
    /\ UNCHANGED notCache

\* One call get_emoji_image(k), the collaborators answering with o
GetEmojiImageCall ==
    /\ cm_open
    /\ \E k \in Keys, o \in Outcomes :
          LET r == GetEmojiImage(k, emoji_mapping, mapping_file, cache_files, o)
          IN  /\ emoji_mapping' = r.map
              /\ mapping_file' = r.file
              /\ cache_files' = r.files
              /\ call' = CallRecord(k, r, emoji_mapping, cache_files)
    /\ prev_call' = call
    /\ UNCHANGED cm_open
    /\ UNCHANGED notCache

CacheNext == CacheManagerInit \/ CacheManagerReopen \/ GetEmojiImageCall

(***************************************************************************)
(* PDFGenerator.create_pdf: the page composer and the line layout          *)
(***************************************************************************)

\* FPDF() defaults: A4 portrait, margins of 1 cm; tenths of a millimetre
PageW == 2100
PageH == 2970
LMargin == 100
RMargin == 100
TMargin == 100
\* set_auto_page_break(auto=True, margin=15)
BMargin == 150
\* pdf.cell(0, 10, ...): the height of a header cell
HeaderCellH == 100
\* pdf.ln(5) and pdf.ln(10) in the header
HeaderLn == 50
HeaderEndLn == 100
\* pdf.ln(8) between paragraphs
ParaSpacing == 80
\* "20 is approximate height needed"
BreakThreshold == 200
\* font_size=12
FontSize == 12
\* the rules' and the images' side margin, and the images' top offset
SideMargin == 200
ImageTopOffset == 100

\* pdf.h - pdf.b_margin: the page break trigger
BottomLimit == PageH - BMargin

\* line_height = font_size * 1.5
LineHeight(fs) == fs * 15

\* emoji_size = font_size * self.emoji_scale * (pdf.k / 72), k = 72 / 25.4
EmojiSize(fs) == (fs * 85 * 10) \div 2540

\* Bounds: paragraphs and image entries per document, segments per paragraph,
\* image width and height
MaxParas == 4
MaxSegs == 3
MaxImages == 2
MaxImgDim == 3

\* pdf.get_string_width(content) of a text segment: representative widths, one
\* wider than the usable width
TextWidths == {900, 1500, 2200}

\* A segment of _split_text_and_emojis with its measured width; cached is the
\* glyph cache's answer when the glyph is drawn (a path, or None)
TextSeg(w) == [is_emoji |-> FALSE, width |-> w, cached |-> FALSE]
GlyphSeg(c) == [is_emoji |-> TRUE, width |-> EmojiSize(FontSize), cached |-> c]
Segments == {TextSeg(w) : w \in TextWidths} \cup {GlyphSeg(c) : c \in BOOLEAN}

\* The segment lists _split_text_and_emojis returns for a non-empty paragraph:
\* adjacent characters of text are one segment, so no two text segments meet
SegLists == UNION {{s \in [1..n -> Segments] :
                      \A i \in 1..(n - 1) : s[i].is_emoji \/ s[i + 1].is_emoji}
                   : n \in 1..MaxSegs}

\* The document under composition
NewPage == [header |-> FALSE, text |-> FALSE, images |-> 0]

\* pdf.add_page(): a new page, the cursor at the top margin
AddPage(pdf) == [pdf EXCEPT !.page = pdf.page + 1, !.y = TMargin,
                            !.pages = Append(pdf.pages, NewPage)]

\* pdf.ln(h)
Ln(pdf, h) == [pdf EXCEPT !.y = pdf.y + h]

\* FPDF's automatic page break before a cell of height h
AutoBreak(pdf, h) == IF pdf.y + h > BottomLimit THEN AddPage(pdf) ELSE pdf

MarkText(pdf) == [pdf EXCEPT !.pages[pdf.page].text = TRUE]

\* pdf.write(h, content) at (x, pdf.y) of text of width w: FPDF breaks the page
\* when the line does not fit above the bottom margin and wraps what is wider
\* than the rest of the line; the result is the document and pdf.get_x()
RECURSIVE FpdfWrite(_, _, _, _)
FpdfWrite(pdf, x, w, h) ==
    LET p == MarkText(AutoBreak(pdf, h))
        avail == PageW - RMargin - x
    IN  IF w <= avail \/ avail <= 0
        THEN [pdf |-> p, x |-> x + w, page |-> p.page, y |-> p.y]
        ELSE LET rest == FpdfWrite(Ln(p, h), LMargin, w - avail, h)
             IN  [rest EXCEPT !.page = p.page, !.y = p.y]

\* The header of create_pdf (lines 116-146): title, rule, date, rule, and the
\* tag line with its rule when there are tags; the elements with the positions
\* they are placed at, and the cursor after them
HeaderElements(tags) ==
    LET t == TMargin
        d == t + HeaderCellH + 2 * HeaderLn
        g == d + HeaderCellH + 2 * HeaderLn
    IN  << [kind |-> "title", page |-> 1, y |-> t],
           [kind |-> "rule", page |-> 1, y |-> t + HeaderCellH + HeaderLn],
           [kind |-> "date", page |-> 1, y |-> d],
           [kind |-> "rule", page |-> 1, y |-> d + HeaderCellH + HeaderLn] >>
        \o (IF tags
            THEN << [kind |-> "tags", page |-> 1, y |-> g],
                    [kind |-> "rule", page |-> 1, y |-> g + HeaderCellH + HeaderLn] >>
            ELSE << >>)

HeaderEnd(tags) ==
    TMargin + 2 * (HeaderCellH + 2 * HeaderLn)
    + (IF tags THEN HeaderCellH + HeaderLn + HeaderEndLn ELSE HeaderEndLn)

\* A mutant of the first pass: no line is ever started, all segments are one line
RECURSIVE PackFrom_NoWrap(_, _, _)
PackFrom_NoWrap(segs, i, st) ==
    IF i > Len(segs)
    THEN [st EXCEPT !.writes = Append(st.writes, [y |-> st.y, segs |-> st.line]),
                    !.y = st.y + LineHeight(FontSize)]
    ELSE PackFrom_NoWrap(segs, i + 1, [st EXCEPT !.line = Append(st.line, segs[i])])

\* The first pass of _write_text_with_emojis (lines 54-76): the calls of
\* _write_line it makes, each with its y_position and its segments, and the
\* y_position it ends with
RECURSIVE PackFrom(_, _, _)
PackFrom(segs, i, st) ==
    IF i > Len(segs)
    THEN IF st.line # << >>
         THEN [st EXCEPT !.writes = Append(st.writes, [y |-> st.y, segs |-> st.line]),
                         !.y = st.y + LineHeight(FontSize)]
         ELSE st
    ELSE LET w == segs[i].width
             s1 == IF st.cur_x + w > PageW - RMargin
                   THEN [st EXCEPT
                           !.writes = Append(st.writes, [y |-> st.y, segs |-> st.line]),
                           !.y = st.y + LineHeight(FontSize),
                           !.cur_x = LMargin,
                           !.line = << >>]
                   ELSE st
         IN  PackFrom(segs, i + 1,
                      [s1 EXCEPT !.line = Append(s1.line, segs[i]),
                                 !.cur_x = s1.cur_x + w])

PackLines(segs, y0) ==
    PackFrom(segs, 1, [writes |-> << >>, y |-> y0, cur_x |-> LMargin, line |-> << >>])

\* _write_line (lines 359-377): a glyph is drawn at current_x when the cache
\* gives its image, text is written at (current_x, y); st is the document, the
\* draw commands so far, and current_x
RECURSIVE WriteLineFrom(_, _, _, _)
WriteLineFrom(segs, i, ly, st) ==
    IF i > Len(segs) THEN st
    ELSE LET s == segs[i] IN
         IF s.is_emoji
         THEN IF s.cached
              THEN WriteLineFrom(segs, i + 1, ly,
                     [st EXCEPT
                        !.drawn = Append(st.drawn,
                                    [kind |-> "glyph", page |-> st.pdf.page,
                                     x |-> st.x, y |-> ly]),
                        !.pdf = MarkText(st.pdf),
                        !.x = st.x + EmojiSize(FontSize)])
              ELSE WriteLineFrom(segs, i + 1, ly, st)
         ELSE LET wr == FpdfWrite([st.pdf EXCEPT !.y = ly], st.x, s.width,
                                  LineHeight(FontSize))
              IN  WriteLineFrom(segs, i + 1, ly,
                     [st EXCEPT
                        !.drawn = Append(st.drawn,
                                    [kind |-> "text", page |-> wr.page,
                                     x |-> st.x, y |-> wr.y]),
                        !.pdf = wr.pdf,
                        !.x = wr.x])

WriteLine(pdf, drawn, segs, x, ly) ==
    LET r == WriteLineFrom(segs, 1, ly, [pdf |-> pdf, drawn |-> drawn, x |-> x])
    IN  [pdf |-> r.pdf, drawn |-> r.drawn]

RECURSIVE WriteLines(_, _, _)
WriteLines(writes, i, st) ==
    IF i > Len(writes) THEN st
    ELSE WriteLines(writes, i + 1,
                    WriteLine(st.pdf, st.drawn, writes[i].segs, LMargin, writes[i].y))

\* _write_text_with_emojis: the line writes, what they draw, and pdf.set_y
WriteTextWithEmojis(pdf, segs) ==
    LET pk == PackLines(segs, pdf.y)
        wl == WriteLines(pk.writes, 1, [pdf |-> pdf, drawn |-> << >>])
    IN  [pdf |-> [wl.pdf EXCEPT !.y = pk.y], writes |-> pk.writes,
         drawn |-> wl.drawn, y0 |-> pdf.y]

\* An entry of the image list: None (a failed download), or a decoded image
\* with its width and height
NullImage == [null |-> TRUE, width |-> 0, height |-> 0]
ImageEntries == {NullImage} \cup
                [null : {FALSE}, width : 1..MaxImgDim, height : 1..MaxImgDim]

\* Exact fractions <<numerator, denominator>> for the float arithmetic of the
\* image fit
FracGt(a, b) == a[1] * b[2] > b[1] * a[2]
FracLe(a, b) == a[1] * b[2] <= b[1] * a[2]
FracEq(a, b) == a[1] * b[2] = b[1] * a[2]
FracMul(a, b) == <<a[1] * b[1], a[2] * b[2]>>
FracDiv(a, b) == <<a[1] * b[2], a[2] * b[1]>>

AvailableHeight == PageH - TMargin - BMargin
AvailableWidth == PageW - 2 * SideMargin

\* A mutant of the fit: the too-tall case is not adjusted
ImageFit_NoHeightCheck(img) ==
    [width |-> <<AvailableWidth, 1>>,
     height |-> FracMul(<<AvailableWidth, 1>>, <<img.height, img.width>>)]

\* The display size of an image (lines 174-185)
ImageFit(img) ==
    LET img_width == <<AvailableWidth, 1>>
        aspect == <<img.height, img.width>>
        img_height == FracMul(img_width, aspect)
    IN  IF FracGt(img_height, <<AvailableHeight, 1>>)
        THEN [width |-> FracDiv(<<AvailableHeight, 1>>, aspect),
              height |-> <<AvailableHeight, 1>>]
        ELSE [width |-> img_width, height |-> img_height]

\* What the model keeps of a handled entry: whether it was None, the page
\* started for it (0: none), whether pdf.image drew it, and its display size
ImageRecord(img, pg, fit, ok) ==
    [null |-> img.null, page |-> pg, placed |-> ok, entry |-> img,
     width |-> fit.width, height |-> fit.height]
NoFit == [width |-> <<0, 1>>, height |-> <<0, 1>>]

\* A mutant of the image loop: the image goes on the current page
PlaceImage_NoNewPage(pdf, img, ok) ==
    [pdf |-> IF ok THEN [pdf EXCEPT !.pages[pdf.page].images = @ + 1] ELSE pdf,
     rec |-> ImageRecord(img, pdf.page, ImageFit(img), ok)]

\* The body of the image loop for a non-null image (lines 172-194): a new page,
\* the fit, pdf.image; an exception of pdf.image (ok = FALSE) is caught and logged
PlaceImage(pdf, img, ok) ==
    LET p == AddPage(pdf)
    IN  [pdf |-> IF ok THEN [p EXCEPT !.pages[p.page].images = @ + 1] ELSE p,
         rec |-> ImageRecord(img, p.page, ImageFit(img), ok)]

\* for image in images: if image: ...
HandleImage(pdf, img, ok) ==
    IF img.null
    THEN [pdf |-> pdf, rec |-> ImageRecord(img, 0, NoFit, FALSE)]
    ELSE PlaceImage(pdf, img, ok)

LogEntry(rec) == [null |-> rec.null, page |-> rec.page, placed |-> rec.placed]
NoImage == ImageRecord(NullImage, 0, NoFit, FALSE)

\* A mutant of the paragraph loop: the page-break check comes before the spacing
ParagraphStep_BreakFirst(pdf, first, segs) ==
    LET brk == pdf.y + BreakThreshold > BottomLimit
        p2 == IF brk THEN AddPage(pdf)
              ELSE IF ~first THEN Ln(pdf, ParaSpacing) ELSE pdf
        r  == WriteTextWithEmojis(p2, segs)
    IN  [pdf |-> r.pdf,
         para |-> [segs |-> segs, writes |-> r.writes, drawn |-> r.drawn,
                   y_before |-> pdf.y, y0 |-> r.y0, y_end |-> r.pdf.y,
                   spaced |-> ~first, broke |-> brk]]

\* The body of the paragraph loop (lines 156-167)
ParagraphStep(pdf, first, segs) ==
    LET p1 == IF ~first THEN Ln(pdf, ParaSpacing) ELSE pdf
        p2 == IF p1.y + BreakThreshold > BottomLimit THEN AddPage(p1) ELSE p1
        r  == WriteTextWithEmojis(p2, segs)
    IN  [pdf |-> r.pdf,
         para |-> [segs |-> segs, writes |-> r.writes, drawn |-> r.drawn,
                   y_before |-> pdf.y, y0 |-> r.y0, y_end |-> r.pdf.y,
                   spaced |-> ~first, broke |-> p2.page # p1.page]]

NoPara == [segs |-> << >>, writes |-> << >>, drawn |-> << >>, y_before |-> 0,
           y0 |-> 0, y_end |-> 0, spaced |-> FALSE, broke |-> FALSE]

Pdf == [page |-> page, y |-> y, pages |-> pages]

ComposeInit ==
    /\ cpc = "idle"
    /\ y = 0
    /\ page = 0
    /\ pages = << >>
    /\ first_paragraph = TRUE
    /\ nparas = 0
    /\ para = NoPara
    /\ nimages = 0
    /\ images_log = << >>
    /\ image = NoImage

\* create_pdf up to the paragraph loop: the first page and the header
CreatePdfBegin ==
    /\ cpc \in {"idle", "done"}
    /\ \E tags \in BOOLEAN :
          /\ y' = HeaderEnd(tags)
          /\ para' = [NoPara EXCEPT !.drawn = HeaderElements(tags)]
    /\ page' = 1
    /\ pages' = << [NewPage EXCEPT !.header = TRUE] >>
    /\ first_paragraph' = TRUE
    /\ nparas' = 0
    /\ nimages' = 0
    /\ images_log' = << >>
    /\ image' = NoImage
    /\ cpc' = "paragraphs"
    /\ UNCHANGED notCompose

\* One iteration of the paragraph loop, for the next paragraph of the list
\* (_process_content returns non-empty paragraphs only)
Paragraph ==
    /\ cpc = "paragraphs"
    /\ nparas < MaxParas
    /\ \E segs \in SegLists :
          LET r == ParagraphStep(Pdf, first_paragraph, segs)
          IN  /\ y' = r.pdf.y
              /\ page' = r.pdf.page
              /\ pages' = r.pdf.pages
              /\ para' = r.para
    /\ first_paragraph' = FALSE
    /\ nparas' = nparas + 1
    /\ UNCHANGED <<cpc, nimages, images_log, image>>
    /\ UNCHANGED notCompose

\* The paragraph list is exhausted (it is never empty)
ParagraphsEnd ==
    /\ cpc = "paragraphs"
    /\ nparas >= 1
    /\ cpc' = "images"
    /\ para' = NoPara
    /\ UNCHANGED <<y, page, pages, first_paragraph, nparas, nimages, images_log, image>>
    /\ UNCHANGED notCompose

\* One iteration of the image loop, for the next entry of the list
ImageEntry ==
    /\ cpc = "images"
    /\ nimages < MaxImages
    /\ \E img \in ImageEntries, ok \in BOOLEAN :
          LET r == HandleImage(Pdf, img, ok /\ ~img.null)
          IN  /\ y' = r.pdf.y
              /\ page' = r.pdf.page
              /\ pages' = r.pdf.pages
              /\ images_log' = Append(images_log, LogEntry(r.rec))
              /\ image' = r.rec
    /\ nimages' = nimages + 1
    /\ UNCHANGED <<cpc, first_paragraph, nparas, para>>
    /\ UNCHANGED notCompose

\* The image list is exhausted: the file is written and its path returned
SavePdf ==
    /\ cpc = "images"
    /\ cpc' = "done"
    /\ UNCHANGED <<y, page, pages, first_paragraph, nparas, para, nimages,
                   images_log, image>>
    /\ UNCHANGED notCompose

ComposeNext == CreatePdfBegin \/ Paragraph \/ ParagraphsEnd \/ ImageEntry \/ SavePdf

(***************************************************************************)
(* PDFGenerator._process_content: the content extractor                    *)
(***************************************************************************)

\* Bounds: the length of a text, and the top-level nodes of a mixed document
MaxStr == 4
MaxNodes == 2

\* A text is a sequence of characters. "&amp;" stands for the five characters
\* & a m p ; of a text node (written &amp;amp; in the HTML source), which
\* html.unescape turns into "&"
Chars == {"a", " ", "\t", "&amp;"}
IsSpace(c) == c \in {" ", "\t"}
StringsUpTo(n) == UNION {[1..k -> Chars] : k \in 0..n}

\* str.strip()
RECURSIVE LStrip(_)
LStrip(s) == IF s # << >> /\ IsSpace(Head(s)) THEN LStrip(Tail(s)) ELSE s
RECURSIVE RStrip(_)
RStrip(s) == IF s # << >> /\ IsSpace(s[Len(s)])
             THEN RStrip(SubSeq(s, 1, Len(s) - 1)) ELSE s
Strip(s) == RStrip(LStrip(s))

\* str.split(): the maximal runs of non-whitespace; cur is the run being read
RECURSIVE SplitFrom(_, _, _)
SplitFrom(s, i, cur) ==
    IF i > Len(s) THEN (IF cur = << >> THEN << >> ELSE << cur >>)
    ELSE IF IsSpace(s[i])
    THEN (IF cur = << >> THEN << >> ELSE << cur >>) \o SplitFrom(s, i + 1, << >>)
    ELSE SplitFrom(s, i + 1, Append(cur, s[i]))
Split(s) == SplitFrom(s, 1, << >>)

\* ' '.join(words)
RECURSIVE JoinSpace(_)
JoinSpace(words) ==
    IF words = << >> THEN << >>
    ELSE IF Len(words) = 1 THEN words[1]
    ELSE words[1] \o << " " >> \o JoinSpace(Tail(words))

\* html.unescape
Unescape(s) == [i \in 1..Len(s) |-> IF s[i] = "&amp;" THEN "&" ELSE s[i]]

\* The parsed document: its top-level children. A text node holds one text; an
\* element holds its tag name and the texts below it in document order, each
\* marked when it lies inside a script or style element
TextNode(s) == [kind |-> "text", name |-> "", strs |-> << [s |-> s, script |-> FALSE] >>]
Elem(name, strs) == [kind |-> "elem", name |-> name, strs |-> strs]
Str(s) == [s |-> s, script |-> FALSE]
ScriptStr(s) == [s |-> s, script |-> TRUE]

BlockTags == {"p", "div", "h1", "h2", "h3", "h4", "h5", "h6", "blockquote"}

\* "<p>" + P + "</p>" parsed: one p element holding the text P
WrapP(P) == << Elem("p", IF P = << >> THEN << >> ELSE << Str(P) >>) >>

Placeholder == << "No content available" >>

\* for element in soup(['script', 'style']): element.decompose()
RECURSIVE LiveStrs(_)
LiveStrs(strs) ==
    IF strs = << >> THEN << >>
    ELSE (IF Head(strs).script THEN << >> ELSE << Head(strs) >>) \o LiveStrs(Tail(strs))
RECURSIVE Decompose(_)
Decompose(doc) ==
    IF doc = << >> THEN << >>
    ELSE LET n == Head(doc) IN
         (IF n.kind = "elem" /\ n.name \in {"script", "style"} THEN << >>
          ELSE IF n.kind = "elem" THEN << [n EXCEPT !.strs = LiveStrs(n.strs)] >>
          ELSE << n >>) \o Decompose(Tail(doc))

\* element.get_text(strip=True): the stripped texts below the element, the
\* empty ones left out, joined with nothing between them
RECURSIVE GetTextStrip(_)
GetTextStrip(strs) ==
    IF strs = << >> THEN << >>
    ELSE Strip(Head(strs).s) \o GetTextStrip(Tail(strs))

\* The flush of the pending inline text (lines 304-308, 317-321, 330-333)
Flush(st) ==
    IF st.current_text # << >>
    THEN LET combined_text == Strip(JoinSpace(st.current_text))
         IN  [paragraphs |-> IF combined_text # << >>
                             THEN Append(st.paragraphs, combined_text)
                             ELSE st.paragraphs,
              current_text |-> << >>]
    ELSE st

\* The traversal of the top-level children (lines 301-327)
RECURSIVE Traverse(_, _, _)
Traverse(doc, i, st) ==
    IF i > Len(doc) THEN st
    ELSE LET element == doc[i] IN
         IF element.kind = "elem" /\ element.name \in BlockTags
         THEN LET f == Flush(st)
                  text == GetTextStrip(element.strs)
              IN  Traverse(doc, i + 1,
                           IF text # << >>
                           THEN [f EXCEPT !.paragraphs = Append(@, Unescape(text))]
                           ELSE f)
         ELSE IF element.kind = "elem" /\ element.name = "br"
         THEN Traverse(doc, i + 1, Flush(st))
         ELSE IF element.kind = "text"
         THEN LET text == Strip(element.strs[1].s)
              IN  Traverse(doc, i + 1,
                           IF text # << >>
                           THEN [st EXCEPT !.current_text = Append(@, Unescape(text))]
                           ELSE st)
         ELSE Traverse(doc, i + 1, st)

\* A mutant of the clean-up: the paragraphs are stripped but inner whitespace
\* runs are kept
CleanParagraph_StripOnly(para_text) == Strip(para_text)

\* cleaned = ' '.join(para.split())
CleanParagraph(para_text) == JoinSpace(Split(para_text))

\* The clean-up of the paragraphs (lines 336-341): the empty ones are dropped
RECURSIVE CleanParagraphs(_)
CleanParagraphs(ps) ==
    IF ps = << >> THEN << >>
    ELSE LET cleaned == CleanParagraph(Head(ps))
         IN  (IF cleaned # << >> THEN << cleaned >> ELSE << >>)
             \o CleanParagraphs(Tail(ps))

\* A mutant of the return: the cleaned list is returned as it is
ProcessContent_NoPlaceholder(doc) ==
    IF doc = << >> THEN << Placeholder >>
    ELSE CleanParagraphs(Flush(Traverse(Decompose(doc), 1,
                           [paragraphs |-> << >>, current_text |-> << >>])).paragraphs)

\* _process_content; the empty string parses to no node at all
ProcessContent(doc) ==
    IF doc = << >> THEN << Placeholder >>
    ELSE LET st == Flush(Traverse(Decompose(doc), 1,
                                  [paragraphs |-> << >>, current_text |-> << >>]))
             cleaned == CleanParagraphs(st.paragraphs)
         IN  IF cleaned # << >> THEN cleaned ELSE << Placeholder >>

\* The documents of the model: every text of up to MaxStr characters wrapped
\* in <p>, and the documents of up to MaxNodes nodes over short texts
ShortTexts == {<< "a" >>, << " " >>, << "&amp;" >>, << " ", "a" >>}
SmallNodes == {TextNode(s) : s \in ShortTexts}
              \cup {Elem(n, << Str(s) >>) : n \in {"p", "div", "b"}, s \in ShortTexts}
              \cup {Elem("p", << >>), Elem("br", << >>),
                    Elem("script", << ScriptStr(<< "a" >>) >>),
                    Elem("p", << Str(<< "a" >>), ScriptStr(<< "a" >>) >>),
                    Elem("p", << Str(<< "a", " " >>), Str(<< "a" >>) >>)}
Documents == {WrapP(P) : P \in StringsUpTo(MaxStr)}
             \cup UNION {[1..n -> SmallNodes] : n \in 0..MaxNodes}

NoContentCall == [doc |-> << >>, ret |-> << >>, called |-> FALSE]

ContentInit == process_content_call = NoContentCall

\* One call _process_content(html_content), the HTML parsing to doc
ProcessContentCall ==
    /\ ~process_content_call.called
    /\ \E doc \in Documents :
          process_content_call' = [doc |-> doc, ret |-> ProcessContent(doc),
                                   called |-> TRUE]
    /\ UNCHANGED notContent

\* The caller is done with the paragraphs
ProcessContentDone ==
    /\ process_content_call.called
    /\ process_content_call' = NoContentCall
    /\ UNCHANGED notContent

ContentNext == ProcessContentCall \/ ProcessContentDone

(***************************************************************************)
(* PDFGenerator._format_date and _get_filename                             *)
(***************************************************************************)

\* title[:50]
TitleCap == 50

\* The date-times of the model, as <<YYYYMMDD, HHMM>>
DateTimes == {<<"20230501", "1000">>, <<"20241231", "2359">>}
NoDateTime == <<"", "">>

\* A date string: its form and the date-time it spells.
\*   naive  2023-05-01T10:00:00          zulu  2023-05-01T10:00:00Z
\*   offset 2023-05-01T10:00:00+00:00    bad   a text that is no ISO-8601 date
\*   empty  ''                           unknown  'Unknown date'
DateStr(form, dt) == [form |-> form, dt |-> dt]
EmptyStr == DateStr("empty", NoDateTime)
UnknownDate == DateStr("unknown", NoDateTime)
DateStrings == {DateStr(f, dt) : f \in {"naive", "zulu", "bad"}, dt \in DateTimes}
               \cup {EmptyStr}

\* date_str.replace('Z', '+00:00')
ReplaceZ(s) == IF s.form = "zulu" THEN [s EXCEPT !.form = "offset"] ELSE s

\* datetime.fromisoformat: raises ValueError on what it cannot parse (a
\* trailing Z among it)
FromIsoFormat(s) == IF s.form \in {"naive", "offset"}
                    THEN [ok |-> TRUE, dt |-> s.dt]
                    ELSE [ok |-> FALSE, dt |-> NoDateTime]

\* Whether the date string can be parsed as ISO-8601
IsIso8601(s) == s.form \in {"naive", "zulu", "offset"}

\* The values _format_date returns: a formatted date-time, or the string given
Formatted(dt) == [kind |-> "formatted", dt |-> dt, raw |-> EmptyStr]
Raw(s) == [kind |-> "raw", dt |-> NoDateTime, raw |-> s]

\* The try block of _format_date (lines 221-222): '%Y%m%d @ %H:%M'
FormatDateTry(s) ==
    LET r == FromIsoFormat(ReplaceZ(s))
    IN  IF r.ok THEN [ret |-> Formatted(r.dt), exc |-> FALSE]
        ELSE [ret |-> Raw(EmptyStr), exc |-> TRUE]

\* A mutant of the except clause: the placeholder text is returned
FormatDateExcept_Unknown(s, t) == IF t.exc THEN [ret |-> Raw(UnknownDate), exc |-> FALSE] ELSE t

\* except Exception: log and return date_str (lines 223-225)
FormatDateExcept(s, t) == IF t.exc THEN [ret |-> Raw(s), exc |-> FALSE] ELSE t

\* _format_date
FormatDate(s) == FormatDateExcept(s, FormatDateTry(s))

\* A title is a sequence of characters; "<b>" and "</b>" stand for tags
TitleChars == {"a", "b", " ", "-", "_", "!", "<b>", "</b>", "&amp;"}
IsWordChar(c) == c \in {"a", "b", "_", "untitled"}
IsTag(c) == c \in {"<b>", "</b>"}
\* The default title, one token of word characters
Untitled == << "untitled" >>

RECURSIVE DropTags(_)
DropTags(t) == IF t = << >> THEN << >>
               ELSE (IF IsTag(Head(t)) THEN << >> ELSE << Head(t) >>) \o DropTags(Tail(t))

\* _clean_html_text: html.unescape, then the text without its tags
CleanHtmlText(t) == IF t = << >> THEN << >> ELSE DropTags(Unescape(t))

\* re.sub(r'[^\w\s-]', '', title)
RECURSIVE DropPunctuation(_)
DropPunctuation(t) ==
    IF t = << >> THEN << >>
    ELSE (IF IsWordChar(Head(t)) \/ IsSpace(Head(t)) \/ Head(t) = "-"
          THEN << Head(t) >> ELSE << >>) \o DropPunctuation(Tail(t))

\* re.sub(r'[-\s]+', '_', title)
IsSeparator(c) == c = "-" \/ IsSpace(c)
RECURSIVE CollapseSeparators(_)
CollapseSeparators(t) ==
    IF t = << >> THEN << >>
    ELSE IF IsSeparator(Head(t))
    THEN (IF Len(t) > 1 /\ IsSeparator(t[2]) THEN << >> ELSE << "_" >>)
         \o CollapseSeparators(Tail(t))
    ELSE << Head(t) >> \o CollapseSeparators(Tail(t))

\* title[:50].strip('_')
RECURSIVE LStripUnderscore(_)
LStripUnderscore(t) == IF t # << >> /\ Head(t) = "_" THEN LStripUnderscore(Tail(t)) ELSE t
RECURSIVE RStripUnderscore(_)
RStripUnderscore(t) == IF t # << >> /\ t[Len(t)] = "_"
                       THEN RStripUnderscore(SubSeq(t, 1, Len(t) - 1)) ELSE t
\* A mutant of the cut: the title is not cut to 50 characters
CapAndStrip_NoCap(t) == RStripUnderscore(LStripUnderscore(t))

CapAndStrip(t) == RStripUnderscore(LStripUnderscore(SubSeq(t, 1, Min(Len(t), TitleCap))))

\* The title part of the filename (lines 234-238)
TitleSlug(t) == CapAndStrip(CollapseSeparators(DropPunctuation(CleanHtmlText(t))))

\* A post as _get_filename reads it: a field that is absent has has_* FALSE
Post(has_id, id, has_date, date, has_title, title) ==
    [has_id |-> has_id, id |-> id, has_date |-> has_date, date |-> date,
     has_title |-> has_title, title |-> title]

\* The file names _get_filename returns
DatedName(d, slug) == [kind |-> "dated", date_part |-> d, title |-> slug, id |-> ""]
UnknownDateName(id) == [kind |-> "unknown_date", date_part |-> "", title |-> << >>, id |-> id]

\* The try block of _get_filename (lines 230-240)
GetFilenameTry(post) ==
    LET date_str == IF post.has_date THEN post.date ELSE EmptyStr
        r == FromIsoFormat(ReplaceZ(date_str))
        title == IF post.has_title THEN post.title ELSE Untitled
    IN  IF r.ok THEN [ret |-> DatedName(r.dt[1], TitleSlug(title)), exc |-> FALSE]
        ELSE [ret |-> DatedName("", << >>), exc |-> TRUE]

\* A mutant of the except clause: the name is built from the title alone
GetFilenameExcept_NoId(post, t) ==
    IF t.exc THEN [ret |-> UnknownDateName("unknown"), exc |-> FALSE] ELSE t

\* except Exception: unknown_date_<id>.pdf (lines 241-243)
GetFilenameExcept(post, t) ==
    IF t.exc
    THEN [ret |-> UnknownDateName(IF post.has_id THEN post.id ELSE "unknown"),
          exc |-> FALSE]
    ELSE t

\* _get_filename
GetFilename(post) == GetFilenameExcept(post, GetFilenameTry(post))

\* The posts of the model
PostIdStrings == {"7", "8"}
Repeat(c, n) == [i \in 1..n |-> c]
Titles == {<< "a" >>, << "a", " ", "b" >>, << "a", "!", "-", " ", "b" >>,
           << "_", "a", "<b>", "b", "</b>", "_" >>, << "&amp;" >>, << >>,
           << "a", "!", "b" >>, << " ", "a", "_", "_", "b" >>,
           Repeat("a", TitleCap - 1) \o << " ", "b" >>,
           Repeat("a", TitleCap + 1)}
DatePosts == {Post(hi, IF hi THEN id ELSE "", hd, IF hd THEN d ELSE EmptyStr,
                   ht, IF ht THEN t ELSE << >>) :
                hi \in BOOLEAN, id \in PostIdStrings, hd \in BOOLEAN,
                d \in DateStrings, ht \in BOOLEAN, t \in Titles}

NoDateCall == [called |-> FALSE, arg |-> EmptyStr, ret |-> Raw(EmptyStr), raised |-> FALSE]
NoNameCall == [called |-> FALSE, arg |-> Post(FALSE, "", FALSE, EmptyStr, FALSE, << >>),
               ret |-> DatedName("", << >>), raised |-> FALSE]

DatesInit ==
    /\ format_date_call = NoDateCall
    /\ get_filename_call = NoNameCall

\* _format_date(post.get('date', 'Unknown date')), as create_pdf calls it
FormatDateCall ==
    /\ \E s \in DateStrings \cup {UnknownDate} :
          LET r == FormatDate(s)
          IN  format_date_call' = [called |-> TRUE, arg |-> s, ret |-> r.ret,
                                   raised |-> r.exc]
    /\ UNCHANGED get_filename_call
    /\ UNCHANGED notDates

\* _get_filename(post)
GetFilenameCall ==
    /\ \E post \in DatePosts :
          LET r == GetFilename(post)
          IN  get_filename_call' = [called |-> TRUE, arg |-> post, ret |-> r.ret,
                                    raised |-> r.exc]
    /\ UNCHANGED format_date_call
    /\ UNCHANGED notDates

DatesNext == FormatDateCall \/ GetFilenameCall

(***************************************************************************)
(* PDFGenerator._split_text_and_emojis                                     *)
(***************************************************************************)

\* Bound: the length of the text
MaxText == 3

\* The characters of a text: a letter, a glyph "G", and a modifier "M"
TextChars == {"x", "G", "M"}
SplitTexts == UNION {[1..n -> TextChars] : n \in 0..MaxText}

\* emoji.EMOJI_DATA: the glyph alone, the glyph with its modifier, and the
\* modifier alone are entries, as a base emoji, its skin-tone sequence and the
\* skin-tone modifier are
GlyphEntries == {<< "G" >>, << "G", "M" >>, << "M" >>}

\* The orders 'for em in emoji.EMOJI_DATA' can iterate the table in
TableOrders == {t \in [1..Cardinality(GlyphEntries) -> GlyphEntries] :
                  \A i, j \in DOMAIN t : i # j => t[i] # t[j]}

\* text[i:].startswith(em)
StartsWith(text, i, em) ==
    /\ i + Len(em) - 1 <= Len(text)
    /\ \A j \in 1..Len(em) : text[i + j - 1] = em[j]

\* The entry the inner loop (lines 95-99) stops at: the first in iteration
\* order that the rest of the text starts with; << >> when there is none
FirstMatch(table, text, i) ==
    IF \E n \in DOMAIN table : StartsWith(text, i, table[n])
    THEN table[CHOOSE n \in DOMAIN table :
                 /\ StartsWith(text, i, table[n])
                 /\ \A m \in 1..(n - 1) : ~StartsWith(text, i, table[m])]
    ELSE << >>

\* current_text appended as a text segment when it is not empty
FlushText(st, i) ==
    IF st.current_text # << >>
    THEN [segments |-> Append(st.segments,
                         [is_emoji |-> FALSE, content |-> st.current_text,
                          at |-> i - Len(st.current_text)]),
          current_text |-> << >>]
    ELSE st

\* The while loop of _split_text_and_emojis (lines 87-105); a segment carries
\* the index of the text it starts at
RECURSIVE SegmentLoop(_, _, _, _)
SegmentLoop(table, text, i, st) ==
    IF i > Len(text) THEN FlushText(st, i)
    ELSE LET em == FirstMatch(table, text, i)
         IN  IF em # << >>
             THEN LET f == FlushText(st, i)
                  IN  SegmentLoop(table, text, i + Len(em),
                         [f EXCEPT !.segments =
                             Append(f.segments,
                                    [is_emoji |-> TRUE, content |-> em, at |-> i])])
             ELSE SegmentLoop(table, text, i + 1,
                         [st EXCEPT !.current_text = Append(st.current_text, text[i])])

SplitTextAndEmojis(table, text) ==
    SegmentLoop(table, text, 1, [segments |-> << >>, current_text |-> << >>]).segments

NoSplitCall == [called |-> FALSE, table |-> << >>, text |-> << >>, segments |-> << >>]

SplitInit == split_call = NoSplitCall

\* One call _split_text_and_emojis(text), under one iteration order of the table
SplitTextCall ==
    /\ ~split_call.called
    /\ \E table \in TableOrders, text \in SplitTexts :
          split_call' = [called |-> TRUE, table |-> table, text |-> text,
                         segments |-> SplitTextAndEmojis(table, text)]
    /\ UNCHANGED notSplit

\* The caller is done with the segments
SplitTextDone ==
    /\ split_call.called
    /\ split_call' = NoSplitCall
    /\ UNCHANGED notSplit

SplitNext == SplitTextCall \/ SplitTextDone

(***************************************************************************)
(* BatchProcessor.process_posts                                            *)
(***************************************************************************)

\* Config.RETRY_DELAY and Config.MAX_RETRY_DELAY
RetryDelay == 30
MaxRetryDelay == 300

\* Bounds: the posts the API holds and how many it returns per page, the runs
\* of process_posts, the page retries of one run
NumPosts == 3
PerPage == 2
MaxRuns == 2
MaxRetries == 1

PostIds == 1..NumPosts

\* api.get_posts(page, per_page): the posts in their order, PerPage to a page,
\* and the empty list after the last of them
ApiPage(p) ==
    LET first == (p - 1) * PerPage + 1
        last == Min(p * PerPage, NumPosts)
    IN  IF first > NumPosts THEN << >> ELSE [i \in 1..(last - first + 1) |-> first + i - 1]

\* load_processed_posts: the ids of the file, the empty set when it is absent
\* or unreadable
LoadProcessedPosts(file) == IF file.ok THEN file.ids ELSE {}

\* save_processed_post: the file's set with post_id added, written back
SaveProcessedPost(file, post_id) ==
    [ok |-> TRUE, ids |-> LoadProcessedPosts(file) \cup {post_id}]

ProcessingResult(post_id, success) == [post_id |-> post_id, success |-> success]
NoResult == [post_id |-> 0, success |-> FALSE]
NoAttempt == [id |-> 0, raised |-> FALSE, error_pdf |-> FALSE, propagated |-> FALSE]

\* The try block of the post loop (lines 145-167) for one post: create_pdf
\* succeeds or raises (render), post['title'] raises KeyError when the field is
\* absent; what it leaves: the processed file, the result, and whether it raised
PostTry(post_id, has_title, render, file) ==
    IF render = "raise" THEN [file |-> file, result |-> NoResult, exc |-> TRUE]
    ELSE IF ~has_title THEN [file |-> file, result |-> NoResult, exc |-> TRUE]
    ELSE [file |-> SaveProcessedPost(file, post_id),
          result |-> ProcessingResult(post_id, TRUE), exc |-> FALSE]

\* A mutant of the except clause: the failed post is marked processed as well
PostExcept_MarkProcessed(post_id, has_title, t) ==
    IF ~t.exc THEN [t EXCEPT !.exc = FALSE] @@ [error_pdf |-> FALSE]
    ELSE [file |-> SaveProcessedPost(t.file, post_id),
          result |-> ProcessingResult(post_id, FALSE), exc |-> FALSE,
          error_pdf |-> TRUE]

\* The except clause of the post loop (lines 169-182): create_error_pdf, then
\* the failure result, whose post['title'] raises KeyError again when the field
\* is absent; exc tells whether an exception leaves the clause
PostExcept(post_id, has_title, t) ==
    IF ~t.exc THEN [t EXCEPT !.exc = FALSE] @@ [error_pdf |-> FALSE]
    ELSE IF ~has_title
    THEN [file |-> t.file, result |-> NoResult, exc |-> TRUE, error_pdf |-> TRUE]
    ELSE [file |-> t.file, result |-> ProcessingResult(post_id, FALSE),
          exc |-> FALSE, error_pdf |-> TRUE]

\* retry_delay = min(retry_delay * 2, MAX_RETRY_DELAY)
NextRetryDelay(d) == Min(d * 2, MaxRetryDelay)

BatchInit ==
    /\ bpc = "idle"
    /\ run = 0
    /\ absent_title = {}
    /\ processed_file = [ok |-> TRUE, ids |-> {}]
    /\ results_file = << >>
    /\ processed_posts = {}
    /\ bpage = 0
    /\ posts = << >>
    /\ idx = 0
    /\ result = NoResult
    /\ total_processed = 0
    /\ retry_delay = 0
    /\ retries = 0
    /\ attempt = NoAttempt
    /\ rendered = {}
    /\ fetched = << >>
    /\ fetch_failed = FALSE
    /\ persisted_before = {}

\* process_posts starts (lines 121-126); the first start fixes which posts the
\* API returns without a title
StartRun ==
    /\ bpc \in {"idle", "done"}
    /\ run < MaxRuns
    /\ run' = run + 1
    /\ \E A \in SUBSET PostIds : absent_title' = (IF run = 0 THEN A ELSE absent_title)
    /\ processed_posts' = LoadProcessedPosts(processed_file)
    /\ bpage' = 1
    /\ total_processed' = 0
    /\ retry_delay' = RetryDelay
    /\ retries' = 0
    /\ posts' = << >>
    /\ idx' = 0
    /\ result' = NoResult
    /\ attempt' = NoAttempt
    /\ rendered' = {}
    /\ fetched' = << >>
    /\ fetch_failed' = FALSE
    /\ persisted_before' = {results_file[i].post_id : i \in 1..Len(results_file)}
    /\ bpc' = "fetch"
    /\ UNCHANGED <<processed_file, results_file>>
    /\ UNCHANGED notBatch

\* The page is fetched (lines 130-135): an empty page ends the run
FetchPageOk ==
    /\ bpc = "fetch"
    /\ fetched' = Append(fetched, bpage)
    /\ posts' = ApiPage(bpage)
    /\ idx' = 1
    /\ bpc' = (IF ApiPage(bpage) = << >> THEN "done" ELSE "post")
    /\ UNCHANGED <<run, absent_title, processed_file, results_file, processed_posts,
                   bpage, result, total_processed, retry_delay, retries, attempt,
                   rendered, fetch_failed, persisted_before>>
    /\ UNCHANGED notBatch

\* api.get_posts raises: the outer except waits and fetches the page again
FetchPageFail ==
    /\ bpc = "fetch"
    /\ retries < MaxRetries
    /\ retries' = retries + 1
    /\ retry_delay' = NextRetryDelay(retry_delay)
    /\ fetch_failed' = TRUE
    /\ UNCHANGED <<bpc, run, absent_title, processed_file, results_file,
                   processed_posts, bpage, posts, idx, result, total_processed,
                   attempt, rendered, fetched, persisted_before>>
    /\ UNCHANGED notBatch

\* The end of one iteration of the post loop: the next post, or page += 1
NextPost ==
    IF idx < Len(posts)
    THEN /\ idx' = idx + 1
         /\ bpc' = "post"
         /\ UNCHANGED bpage
    ELSE /\ idx' = 0
         /\ bpage' = bpage + 1
         /\ bpc' = "fetch"

\* A post already in processed_posts is skipped (lines 140-142)
SkipPost ==
    /\ bpc = "post"
    /\ posts[idx] \in processed_posts
    /\ NextPost
    /\ UNCHANGED <<run, absent_title, processed_file, results_file, processed_posts,
                   posts, result, total_processed, retry_delay, retries, attempt,
                   rendered, fetched, fetch_failed, persisted_before>>
    /\ UNCHANGED notBatch

\* The try/except of the post loop for the next post (lines 144-182)
ProcessPost ==
    /\ bpc = "post"
    /\ posts[idx] \notin processed_posts
    /\ \E render \in {"ok", "raise"} :
          LET post_id == posts[idx]
              has_title == post_id \notin absent_title
              t == PostTry(post_id, has_title, render, processed_file)
              e == PostExcept(post_id, has_title, t)
          IN  /\ e.exc => retries < MaxRetries
              /\ rendered' = rendered \cup {post_id}
              /\ processed_file' = e.file
              /\ result' = e.result
              /\ attempt' = [id |-> post_id, raised |-> t.exc,
                             error_pdf |-> e.error_pdf, propagated |-> e.exc]
              /\ IF e.exc
                 THEN \* the outer except (lines 192-197): wait, fetch the page again
                      /\ retries' = retries + 1
                      /\ retry_delay' = NextRetryDelay(retry_delay)
                      /\ bpc' = "fetch"
                 ELSE /\ bpc' = "save"
                      /\ UNCHANGED <<retries, retry_delay>>
    /\ UNCHANGED <<run, absent_title, results_file, processed_posts, bpage, posts,
                   idx, total_processed, fetched, fetch_failed, persisted_before>>
    /\ UNCHANGED notBatch

\* save_result(result); total_processed += 1 (lines 184-185)
SaveResult ==
    /\ bpc = "save"
    /\ results_file' = Append(results_file, result)
    /\ total_processed' = total_processed + 1
    /\ result' = NoResult
    /\ attempt' = NoAttempt
    /\ NextPost
    /\ UNCHANGED <<run, absent_title, processed_file, processed_posts, posts,
                   retry_delay, retries, rendered, fetched, fetch_failed,
                   persisted_before>>
    /\ UNCHANGED notBatch

\* The process is interrupted: its locals are gone, the files stay
Interrupt ==
    /\ bpc \in {"fetch", "post", "save"}
    /\ bpc' = "idle"
    /\ processed_posts' = {}
    /\ bpage' = 0
    /\ posts' = << >>
    /\ idx' = 0
    /\ result' = NoResult
    /\ total_processed' = 0
    /\ retry_delay' = 0
    /\ retries' = 0
    /\ attempt' = NoAttempt
    /\ UNCHANGED <<run, absent_title, processed_file, results_file, rendered,
                   fetched, fetch_failed, persisted_before>>
    /\ UNCHANGED notBatch

BatchNext == StartRun \/ FetchPageOk \/ FetchPageFail \/ SkipPost \/ ProcessPost
             \/ SaveResult \/ Interrupt

(***************************************************************************)
(* The specifications                                                      *)
(***************************************************************************)

Init == CacheInit /\ ComposeInit /\ ContentInit /\ DatesInit /\ SplitInit /\ BatchInit

SpecCache   == Init /\ [][CacheNext]_vars
SpecCompose == Init /\ [][ComposeNext]_vars
SpecContent == Init /\ [][ContentNext]_vars
SpecDates   == Init /\ [][DatesNext]_vars
SpecSplit   == Init /\ [][SplitNext]_vars
SpecBatch   == Init /\ [][BatchNext]_vars

Next == CacheNext \/ ComposeNext \/ ContentNext \/ DatesNext \/ SplitNext \/ BatchNext
Spec == Init /\ [][Next]_vars

(***************************************************************************)
(* The claims                                                              *)
(***************************************************************************)

\* C1 (as claimed): in create_pdf every header element, every text run and
\* every glyph image of a paragraph is drawn at a vertical position that does
\* not exceed the page bottom limit (page height minus bottom margin).
C1_ContentAboveBottomLimit ==
    \A i \in DOMAIN para.drawn : para.drawn[i].y <= BottomLimit

\* C2 (as claimed): two consecutive get_emoji_image calls for the same key
\* perform at most one network fetch in total.
C2_AtMostOneFetch ==
    (call.key # 0 /\ prev_call.key = call.key)
        => prev_call.fetches + call.fetches <= 1

\* C2 (amended): when the first of two consecutive get_emoji_image calls for
\* the same key returns a path, the second call performs no network fetch and
\* returns the same path, so the two perform at most one fetch in total.
C2_HitAfterReturnedPath ==
    (call.key # 0 /\ prev_call.key = call.key /\ prev_call.ret # None)
        => /\ call.fetches = 0
           /\ call.ret = prev_call.ret
           /\ prev_call.fetches + call.fetches <= 1

C2_Witness ==
    /\ call.key # 0
    /\ prev_call.key = call.key
    /\ prev_call.fetches = 1
    /\ prev_call.ret # None
    /\ call.fetches = 0

\* C3: get_emoji_image never raises; it returns the key's cache path or None,
\* and None whenever the fetch, the decode or the image save failed.
C3_NeverRaises ==
    call.key # 0
        => /\ ~call.raised
           /\ call.ret \in {None, CachePath(GetEmojiFilename(call.key))}
           /\ call.failed => call.ret = None

C3_Witness ==
    /\ call.key # 0
    /\ call.fetches = 1
    /\ call.failed
    /\ call.ret = None
    /\ ~call.raised

\* C4 (as claimed): a run of process_posts renders no post whose outcome
\* (success or failure) an earlier run persisted.
C4_NoPersistedPostRenderedAgain == rendered \cap persisted_before = {}

\* C5 (as claimed): when the processing of a post raises, the exception is
\* caught, the error document is made for that post, a result with
\* success=False is recorded for it, and the loop goes on to save it and to the
\* next post.
C5_FailureHandledPerPost ==
    attempt.raised
        => /\ attempt.error_pdf
           /\ ~attempt.propagated
           /\ bpc = "save"
           /\ result = ProcessingResult(attempt.id, FALSE)

\* C6: every iteration of the image loop for a non-null entry starts exactly
\* one new page, which becomes the current page and holds no header, no
\* paragraph content and no other image, and leaves all earlier pages as they
\* were; an iteration for a null entry starts no page and changes no page.
ImageEntryStep ==
    (cpc = "images" /\ Len(images_log') = Len(images_log) + 1)
        => LET e == images_log'[Len(images_log')]
           IN  /\ cpc' = "images"
               /\ \A p \in 1..Len(pages) : pages'[p] = pages[p]
               /\ IF e.null
                  THEN /\ pages' = pages
                       /\ page' = page
                       /\ e.page = 0
                  ELSE /\ Len(pages') = Len(pages) + 1
                       /\ page' = Len(pages')
                       /\ e.page = page'
                       /\ pages'[page'] =
                            [header |-> FALSE, text |-> FALSE,
                             images |-> IF e.placed THEN 1 ELSE 0]
C6_OnePagePerImage == [][ImageEntryStep]_vars

C6_Witness ==
    /\ cpc = "done"
    /\ Len(images_log) = 2
    /\ images_log[1].null
    /\ ~images_log[2].null
    /\ images_log[2].placed
    /\ Len(pages) >= 3

\* C7: for an image of positive width and height the computed display size
\* keeps the aspect ratio, the display width is at most the available width and
\* the display height at most the available height.
C7_ImageFits ==
    ~image.null
        => /\ FracLe(image.width, <<PageW - 2 * SideMargin, 1>>)
           /\ FracLe(image.height, <<PageH - TMargin - BMargin, 1>>)
           /\ FracEq(FracMul(image.width, <<image.entry.height, image.entry.width>>),
                     image.height)

C7_Witness ==
    /\ ~image.null
    /\ image.entry.height * AvailableWidth > AvailableHeight * image.entry.width
    /\ image.height = <<AvailableHeight, 1>>
    /\ FracGt(<<AvailableWidth, 1>>, image.width)

\* The paragraph text P of a document "<p>P</p>"
IsWrappedParagraph(doc) ==
    /\ Len(doc) = 1
    /\ doc[1].kind = "elem"
    /\ doc[1].name = "p"
    /\ Len(doc[1].strs) <= 1
    /\ \A i \in 1..Len(doc[1].strs) : ~doc[1].strs[i].script
ParagraphText(doc) == IF doc[1].strs = << >> THEN << >> ELSE doc[1].strs[1].s

\* P without leading and trailing whitespace, every whitespace run one space
RECURSIVE CollapseRuns(_)
CollapseRuns(s) ==
    IF s = << >> THEN << >>
    ELSE IF IsSpace(s[1])
    THEN (IF Len(s) > 1 /\ IsSpace(s[2]) THEN << >> ELSE << " " >>) \o CollapseRuns(Tail(s))
    ELSE << s[1] >> \o CollapseRuns(Tail(s))
NormalizedWhitespace(P) == CollapseRuns(Strip(P))

HasCharacterReference(P) == \E i \in 1..Len(P) : P[i] = "&amp;"

\* C8 (as claimed): _process_content of "<p>P</p>" returns exactly the
\* one-element list of P with its whitespace normalized, for every text P.
C8_WrappedParagraphNormalized ==
    (process_content_call.called /\ IsWrappedParagraph(process_content_call.doc))
        => process_content_call.ret =
             << NormalizedWhitespace(ParagraphText(process_content_call.doc)) >>

\* C8 (amended): for every plain text P (no markup, no character reference),
\* _process_content of "<p>P</p>" returns exactly the one-element list of P with
\* its whitespace normalized when P holds a character that is not whitespace,
\* and ["No content available"] when P is empty or whitespace only.
C8_PlainParagraphNormalized ==
    LET doc == process_content_call.doc
        P == ParagraphText(doc)
    IN  (process_content_call.called /\ IsWrappedParagraph(doc)
         /\ ~HasCharacterReference(P))
            => process_content_call.ret =
                 IF NormalizedWhitespace(P) # << >>
                 THEN << NormalizedWhitespace(P) >>
                 ELSE << Placeholder >>

C8_Witness ==
    /\ process_content_call.called
    /\ process_content_call.doc = WrapP(<< "a", "\t", " ", "a" >>)
    /\ process_content_call.ret = << << "a", " ", "a" >> >>

\* C9 (as claimed): a paragraph that is one text segment wider than the usable
\* page width is written as exactly one line holding that segment, and the
\* cursor advances by one line height.
C9_WideSegmentOneLine ==
    (cpc = "paragraphs" /\ Len(para.segs) = 1 /\ ~para.segs[1].is_emoji
     /\ para.segs[1].width > PageW - RMargin - LMargin)
        => /\ Len(para.writes) = 1
           /\ para.writes[1].segs = para.segs
           /\ para.y_end = para.y0 + LineHeight(FontSize)

\* The date string _get_filename reads from a post
PostDate(post) == IF post.has_date THEN post.date ELSE EmptyStr

\* C10: for a date string that cannot be parsed as ISO-8601, _format_date
\* returns the string itself without raising, and _get_filename returns
\* unknown_date_<id>.pdf without raising.
C10_UnparsableDateFallback ==
    /\ (format_date_call.called /\ ~IsIso8601(format_date_call.arg))
          => /\ ~format_date_call.raised
             /\ format_date_call.ret = Raw(format_date_call.arg)
    /\ (get_filename_call.called /\ ~IsIso8601(PostDate(get_filename_call.arg)))
          => /\ ~get_filename_call.raised
             /\ get_filename_call.ret.kind = "unknown_date"
             /\ get_filename_call.arg.has_id
                   => get_filename_call.ret = UnknownDateName(get_filename_call.arg.id)

C10_Witness ==
    /\ format_date_call.called
    /\ format_date_call.arg.form = "bad"
    /\ format_date_call.ret.kind = "raw"
    /\ get_filename_call.called
    /\ get_filename_call.arg.has_date
    /\ get_filename_call.arg.has_id
    /\ get_filename_call.arg.date.form = "bad"
    /\ get_filename_call.ret.kind = "unknown_date"

\* The title _get_filename reads from a post, cleaned by _clean_html_text
PostTitle(post) == CleanHtmlText(IF post.has_title THEN post.title ELSE Untitled)
IsAlnum(c) == c \in {"a", "b", "untitled"}

\* The slug as claimed: each non-alphanumeric character an underscore, runs of
\* underscores one, at most 50 characters, no trailing underscore
RECURSIVE UnderscoreRuns(_)
UnderscoreRuns(t) ==
    IF t = << >> THEN << >>
    ELSE IF ~IsAlnum(t[1])
    THEN (IF Len(t) > 1 /\ ~IsAlnum(t[2]) THEN << >> ELSE << "_" >>)
         \o UnderscoreRuns(Tail(t))
    ELSE << t[1] >> \o UnderscoreRuns(Tail(t))
FirstN(t, n) == [i \in 1..(IF Len(t) < n THEN Len(t) ELSE n) |-> t[i]]
LastInk(t) == IF \E i \in 1..Len(t) : t[i] # "_"
              THEN CHOOSE i \in 1..Len(t) : t[i] # "_" /\ \A j \in (i+1)..Len(t) : t[j] = "_"
              ELSE 0
FirstInk(t) == IF \E i \in 1..Len(t) : t[i] # "_"
               THEN CHOOSE i \in 1..Len(t) : t[i] # "_" /\ \A j \in 1..(i-1) : t[j] = "_"
               ELSE 1
ClaimedSlug(t) == LET c == FirstN(UnderscoreRuns(t), TitleCap) IN SubSeq(c, 1, LastInk(c))

\* The slug in one pass: characters other than word characters, whitespace and
\* hyphen are removed, and a run of whitespace and hyphens (with the removed
\* characters inside it) is one underscore; then at most 50 characters, without
\* leading and trailing underscores
RECURSIVE OnePassSlug(_, _, _)
OnePassSlug(t, i, in_sep) ==
    IF i > Len(t) THEN (IF in_sep THEN << "_" >> ELSE << >>)
    ELSE IF t[i] \in {" ", "\t", "-"} THEN OnePassSlug(t, i + 1, TRUE)
    ELSE IF t[i] \in {"a", "b", "_", "untitled"}
    THEN (IF in_sep THEN << "_" >> ELSE << >>) \o << t[i] >> \o OnePassSlug(t, i + 1, FALSE)
    ELSE OnePassSlug(t, i + 1, in_sep)
ExpectedSlug(t) == LET c == FirstN(OnePassSlug(t, 1, FALSE), TitleCap)
                   IN  SubSeq(c, FirstInk(c), LastInk(c))

\* C11 (as claimed): for a parsable date _get_filename returns
\* <YYYYMMDD>_<slug>.pdf, the slug being the cleaned title with each
\* non-alphanumeric character replaced by an underscore, runs of underscores
\* collapsed, cut to 50 characters, trailing underscores removed.
C11_SlugReplacesNonAlphanumeric ==
    (get_filename_call.called /\ IsIso8601(PostDate(get_filename_call.arg)))
        => get_filename_call.ret =
             DatedName(PostDate(get_filename_call.arg).dt[1],
                       ClaimedSlug(PostTitle(get_filename_call.arg)))

\* C11 (amended): for a parsable date _get_filename returns
\* <YYYYMMDD>_<slug>.pdf without raising, the slug being the cleaned title with
\* every character other than word characters (letters, digits, underscore),
\* whitespace and hyphen removed, every run of whitespace and hyphens replaced
\* by one underscore, cut to 50 characters, leading and trailing underscores
\* removed.
C11_SlugDropsPunctuation ==
    (get_filename_call.called /\ IsIso8601(PostDate(get_filename_call.arg)))
        => /\ ~get_filename_call.raised
           /\ get_filename_call.ret =
                DatedName(PostDate(get_filename_call.arg).dt[1],
                          ExpectedSlug(PostTitle(get_filename_call.arg)))
           /\ Len(get_filename_call.ret.title) <= TitleCap

C11_Witness ==
    /\ get_filename_call.called
    /\ get_filename_call.arg.has_title
    /\ get_filename_call.arg.title = Repeat("a", TitleCap - 1) \o << " ", "b" >>
    /\ get_filename_call.ret = DatedName("20230501", Repeat("a", TitleCap - 1))

\* The same paragraph text: the same segments, whatever the glyph cache answers
SameText(a, b) ==
    /\ Len(a) = Len(b)
    /\ \A i \in 1..Len(a) : a[i].is_emoji = b[i].is_emoji /\ a[i].width = b[i].width

\* C12 (as claimed): a paragraph of create_pdf draws the same sequence of text
\* runs and glyph images, at the same places and with the same page breaks,
\* whatever the glyph cache and the glyph fetches answer for its glyphs.
ParagraphStepIsPure ==
    (cpc = "paragraphs" /\ nparas' = nparas + 1)
        => \A alt \in SegLists :
              SameText(alt, para'.segs)
                 => LET r == ParagraphStep(Pdf, first_paragraph, alt)
                    IN  /\ r.para.drawn = para'.drawn
                        /\ r.pdf.pages = pages'
                        /\ r.pdf.y = y'
C12_RenderingIsPure == [][ParagraphStepIsPure]_vars

\* C13: a call of get_emoji_image removes no key of the cache mapping and
\* changes the filename of none.
MappingKept ==
    (cm_open /\ call'.key # 0)
        => \A k \in DOMAIN emoji_mapping :
              k \in DOMAIN emoji_mapping' /\ emoji_mapping'[k] = emoji_mapping[k]
C13_MappingStable == [][MappingKept]_vars

C13_Witness ==
    /\ prev_call.key # 0
    /\ prev_call.ret # None
    /\ call.key # 0
    /\ call.key # prev_call.key
    /\ call.fetches = 1
    /\ call.ret # None
    /\ DOMAIN emoji_mapping = {prev_call.key, call.key}
    /\ emoji_mapping[prev_call.key] = GetEmojiFilename(prev_call.key)

\* Whether nothing but whitespace is left in the text the traversal reads: the
\* top-level text nodes and the strings of the block elements outside script
\* and style
BlankString(t) == \A i \in 1..Len(t) : t[i] \in {" ", "\t"}
AllBlank(doc) ==
    \A n \in 1..Len(doc) :
       (doc[n].kind = "text" \/ doc[n].name \in BlockTags)
          => \A j \in 1..Len(doc[n].strs) :
                doc[n].strs[j].script \/ BlankString(doc[n].strs[j].s)

\* C14: _process_content returns a non-empty list of paragraphs each holding a
\* character that is not whitespace, and exactly ["No content available"] when
\* the input is empty or nothing but whitespace is left to make a paragraph of.
C14_NonEmptyParagraphs ==
    process_content_call.called
        => /\ process_content_call.ret # << >>
           /\ \A i \in 1..Len(process_content_call.ret) :
                 /\ process_content_call.ret[i] # << >>
                 /\ ~BlankString(process_content_call.ret[i])
           /\ AllBlank(process_content_call.doc)
                 => process_content_call.ret = << Placeholder >>

C14_Witness ==
    /\ process_content_call.called
    /\ Len(process_content_call.doc) = 2
    /\ process_content_call.doc[1].kind = "text"
    /\ process_content_call.doc[2].name = "p"
    /\ process_content_call.doc[2].strs # << >>
    /\ AllBlank(process_content_call.doc)
    /\ process_content_call.ret = << Placeholder >>

\* C15 (as claimed): the page-break decision of a paragraph is taken on the
\* cursor left by the preceding content: with less than the threshold left a
\* new page is started and the paragraph begins at the top margin; otherwise
\* the paragraph begins after the inter-paragraph spacing (none before the
\* first paragraph) on the same page.
C15_BreakDecidedBeforeSpacing ==
    (cpc = "paragraphs" /\ para.segs # << >>)
        => IF para.y_before + BreakThreshold > BottomLimit
           THEN para.broke /\ para.y0 = TMargin
           ELSE /\ ~para.broke
                /\ para.y0 = para.y_before + (IF nparas = 1 THEN 0 ELSE ParaSpacing)

\* C15 (amended): the inter-paragraph spacing (none before the first
\* paragraph) is added to the cursor left by the preceding content, and the
\* page-break decision is taken on the cursor after it: with less than the
\* threshold left there, a new page is started and the paragraph begins at the
\* top margin; otherwise the paragraph begins at the spaced cursor on the same
\* page.
C15_BreakDecidedAfterSpacing ==
    (cpc = "paragraphs" /\ para.segs # << >>)
        => LET spaced == para.y_before + (IF nparas = 1 THEN 0 ELSE ParaSpacing)
           IN  IF spaced + BreakThreshold > BottomLimit
               THEN para.broke /\ para.y0 = TMargin
               ELSE ~para.broke /\ para.y0 = spaced

C15_Witness ==
    /\ cpc = "paragraphs"
    /\ nparas > 1
    /\ para.y_before + BreakThreshold <= BottomLimit
    /\ para.y_before + ParaSpacing + BreakThreshold > BottomLimit
    /\ para.broke
    /\ para.y0 = TMargin

\* The text runs among the draw commands
RECURSIVE TextRuns(_)
TextRuns(d) ==
    IF d = << >> THEN << >>
    ELSE (IF d[1].kind = "text" THEN << d[1] >> ELSE << >>) \o TextRuns(Tail(d))
AllAvailable(segs) == [i \in 1..Len(segs) |-> [segs[i] EXCEPT !.cached = segs[i].is_emoji]]

\* C16 (as claimed): a glyph the cache gives no image for keeps its width on
\* the line: every text run of the paragraph is drawn at the place it has when
\* all glyph images are available.
SkippedGlyphKeepsWidth ==
    (cpc = "paragraphs" /\ nparas' = nparas + 1)
        => TextRuns(para'.drawn) =
             TextRuns(ParagraphStep(Pdf, first_paragraph, AllAvailable(para'.segs)).para.drawn)
C16_SkippedGlyphKeepsWidth == [][SkippedGlyphKeepsWidth]_vars

\* The sum of the widths of the segments of a line
RECURSIVE WidthSum(_)
WidthSum(line) == IF line = << >> THEN 0 ELSE line[1].width + WidthSum(Tail(line))

\* C18: every line the packing pass emits with two or more segments fits: the
\* left margin plus its segments' widths is at most the page width minus the
\* right margin; and all segments are emitted, in order.
RECURSIVE Concat(_)
Concat(writes) == IF writes = << >> THEN << >> ELSE writes[1].segs \o Concat(Tail(writes))
C18_PackedLinesFit ==
    (cpc = "paragraphs" /\ para.segs # << >>)
        => /\ \A i \in 1..Len(para.writes) :
                 Len(para.writes[i].segs) >= 2
                    => LMargin + WidthSum(para.writes[i].segs) <= PageW - RMargin
           /\ Concat(para.writes) = para.segs

C18_Witness ==
    /\ cpc = "paragraphs"
    /\ Len(para.segs) = 3
    /\ LMargin + WidthSum(para.segs) > PageW - RMargin
    /\ \E i \in 1..Len(para.writes) :
          /\ Len(para.writes[i].segs) = 2
          /\ \E j \in 1..Len(para.writes) :
                Len(para.writes[j].segs) = 1
                /\ LMargin + WidthSum(para.writes[j].segs) > PageW - RMargin

\* C20: when the key is not in the mapping and its cache file exists,
\* get_emoji_image fetches nothing, maps the key to the file name in memory,
\* rewrites the mapping file once, and returns the file's path.
C20_SelfHealing ==
    (call.key # 0 /\ ~call.known /\ call.on_disk)
        => /\ call.fetches = 0
           /\ ~call.raised
           /\ call.ret = CachePath(GetEmojiFilename(call.key))
           /\ call.key \in DOMAIN emoji_mapping
           /\ emoji_mapping[call.key] = GetEmojiFilename(call.key)
           /\ call.mapsaves = 1
           /\ mapping_file.ok => mapping_file.map = emoji_mapping

C20_Witness ==
    /\ call.key # 0
    /\ ~call.known
    /\ call.on_disk
    /\ call.fetches = 0
    /\ call.mapsaves = 1
    /\ mapping_file.ok
    /\ call.key \in DOMAIN mapping_file.map

\* The number of characters that are not whitespace: in a text, in the strings
\* of a node outside script and style, in a document, in a list of paragraphs
RECURSIVE Ink(_)
Ink(t) == IF t = << >> THEN 0
          ELSE (IF t[1] \in {" ", "\t"} THEN 0 ELSE 1) + Ink(Tail(t))
RECURSIVE StrsInk(_)
StrsInk(strs) == IF strs = << >> THEN 0
                 ELSE (IF strs[1].script THEN 0 ELSE Ink(strs[1].s)) + StrsInk(Tail(strs))
RECURSIVE DocInk(_)
DocInk(doc) == IF doc = << >> THEN 0 ELSE StrsInk(doc[1].strs) + DocInk(Tail(doc))
RECURSIVE ParagraphsInk(_)
ParagraphsInk(ps) == IF ps = << >> THEN 0 ELSE Ink(ps[1]) + ParagraphsInk(Tail(ps))

\* C19 (as claimed): no body text outside script and style is dropped: the
\* paragraphs _process_content returns hold every character of the body's
\* text that is not whitespace, the text of inline elements that are top-level
\* children included.
C19_NoBodyTextDropped ==
    (process_content_call.called /\ DocInk(process_content_call.doc) > 0)
        => /\ process_content_call.ret # << Placeholder >>
           /\ ParagraphsInk(process_content_call.ret) = DocInk(process_content_call.doc)

\* C17 (as claimed): every glyph segment _split_text_and_emojis emits is the
\* longest entry of the glyph table that the text starts with at the segment's
\* position, whatever the iteration order of the table.
C17_LongestGlyphMatch ==
    split_call.called
        => \A n \in 1..Len(split_call.segments) :
              split_call.segments[n].is_emoji
                 => \A em \in GlyphEntries :
                       StartsWith(split_call.text, split_call.segments[n].at, em)
                          => Len(em) <= Len(split_call.segments[n].content)

\* C21 (as claimed): in a run of process_posts in which no page fetch raises,
\* the page number advances exactly once per non-empty page and no page is
\* fetched again: the pages fetched are 1, 2, 3, ... in this order, whatever
\* posts succeed or fail and whatever fields the posts have.
C21_EachPageFetchedOnce ==
    ~fetch_failed => \A i \in DOMAIN fetched : fetched[i] = i
====
